---- MODULE Spec2Model ----
(***************************************************************************)
(* A model of these pieces of the repository:                              *)
(*   - the editor dev-server bridge: getProjectServer, startServer,        *)
(*     getMiddleware and the pass-through plugin (project-server.ts);      *)
(*   - the React wrapper createComponent: addOrUpdateEventListener,        *)
(*     setProperty, setRef and the component's render and lifecycle;       *)
(*   - the select and dispatch decorators of the Redux connector;          *)
(*   - the provider/consumer context protocol the @consume tests exercise. *)
(* JavaScript is single threaded: every action below is one run of a       *)
(* handler from its entry to its first await (or its end), or one          *)
(* continuation after an await.                                            *)
(***************************************************************************)
EXTENDS Integers, Sequences, FiniteSets, TLC

\* ------------------------------------------------------------------ bounds
\* Number of getProjectServer calls made over a run.
MaxCalls == 3
\* The dev server listens on one of the ports 1..MaxPort.
MaxPort == 1

\* `const lazyAddress: LazyAddress = {port: 0}`
PlaceholderPort == 0

Workspaces == {"w1", "w2"}
Calls == 1..MaxCalls
Ports == 1..MaxPort
NoError == "none"

\* --------------------------------------------------------------- variables
VARIABLES
  serverCache,   \* workspace path -> the Deferred of its server (0: undefined)
  deferred,      \* the Deferred call c created: its state, server and error
  callPc,        \* where call c of getProjectServer is
  callWs,        \* the workspace folder call c was made for
  callPromise,   \* the Deferred whose promise call c returns (0: none yet)
  callOutcome,   \* what the caller of call c observed of that promise
  joined,        \* the state of the workspace's startup when call c arrived
  startPc,       \* where the startup sequence run by call c is
  uiServer,      \* the getUiServer() promise of call c
  analyzer,      \* the getAnalyzer() promise of call c
  listening,     \* the dev server started by call c accepts requests
  actualPort,    \* the port that dev server listens on
  lazyPort,      \* lazyAddress.port of that dev server
  startups,      \* number of times the try block was entered, per workspace
  devStarted,    \* number of startServer invocations, per workspace
  startFail,     \* the error the catch block of call c caught
  lastStory      \* <<server, port>> of the /story/:path page rendered last

serverVars == <<serverCache, deferred, callPc, callWs, callPromise,
                callOutcome, joined, startPc, uiServer, analyzer, listening,
                actualPort, lazyPort, startups, devStarted, startFail,
                lastStory>>

\* The pass-through plugin of one dev server (the closure of startServer).
VARIABLES
  fileCache,     \* absolute path -> compiled text; its DOMAIN is the keys set
  lastServe      \* the last request the plugin's serve() handled

pluginVars == <<fileCache, lastServe>>

\* The event listeners the React wrapper keeps on custom elements.
VARIABLES
  listenedEvents, \* WeakMap: node -> Map: event name -> handler object
  handlers,       \* handler object -> its handleEvent ("": not created)
  nextHandler,    \* the next handler object to be created
  domListeners,   \* <<node, event>> -> the handler objects the DOM has registered
  lastSupplied,   \* <<node, event>> -> the listener passed by the last call
  lastDispatch    \* the last event dispatched and the listeners it called

eventVars == <<listenedEvents, handlers, nextHandler, domListeners,
               lastSupplied, lastDispatch>>

\* Context providers and the consumers nested in them.
VARIABLES
  providerValue,  \* provider -> the value it provides
  subscribers,    \* provider -> the consumers subscribed to it
  consumerValue,  \* consumer -> its consumed property
  connected,      \* consumer -> it is in the document
  subscribedTo,   \* consumer -> the provider that answered its request (0: none)
  updatePending,  \* consumer -> an update was requested and has not run
  rendered        \* consumer -> the value its last update rendered

contextVars == <<providerValue, subscribers, consumerValue, connected,
                 subscribedTo, updatePending, rendered>>

\* One component made by createComponent, and the element it wraps.
VARIABLES
  phase,          \* "new", "mounted" or "unmounted"
  props,          \* this.props: prop name -> value
  _element,       \* this._element
  _elementProps,  \* this._elementProps
  reactProps,     \* the props render() gave createElement, other than ref
  _userRef,       \* this._userRef
  _ref,           \* this._ref: the user ref its closure captured
  refHeld,        \* user ref -> the value it was last given
  elProp,         \* property of the element -> its value
  lastUpdate      \* what the last render and _updateElement did

reactVars == <<phase, props, _element, _elementProps, reactProps, _userRef,
               _ref, refHeld, elProp, lastUpdate>>

\* One field decorated with select or dispatch, and the elements of its class.
VARIABLES
  decoration,     \* the decorator applied to the field, and its options
  controllerMap,  \* WeakMap: element -> its Connector (0: none)
  connectors,     \* the Connectors created: host, options, selected, dispatch
  nextConnector,  \* the next Connector to be created
  store,          \* element -> the state of the store it is connected to
  lastRead        \* the last read of the field and what it returned

reduxVars == <<decoration, controllerMap, connectors, nextConnector, store,
               lastRead>>

vars == <<serverVars, pluginVars, eventVars, contextVars, reactVars,
          reduxVars>>

\* ------------------------------------------------------- the Deferred class
NoDeferred == [state |-> "none", server |-> 0, error |-> NoError]
NewDeferred == [state |-> "pending", server |-> 0, error |-> NoError]

\* Faulty variant: the catch block swallows the error.
RejectDeferred_Swallow(ds, d, e) == ds

\* serverDeferred.reject(e), on the Deferreds ds
RejectDeferred(ds, d, e) ==
  IF ds[d].state = "pending"
  THEN [ds EXCEPT ![d] = [state |-> "rejected", server |-> 0, error |-> e]]
  ELSE ds

\* serverDeferred.resolve(server)
ResolveDeferred(ds, d, s) ==
  IF ds[d].state = "pending"
  THEN [ds EXCEPT ![d] = [state |-> "resolved", server |-> s, error |-> NoError]]
  ELSE ds

Settled(d) == d # 0 /\ deferred[d].state \in {"resolved", "rejected"}

\* ------------------------------------------------------------- serverCache
\* Faulty variant: an entry whose startup has completed is looked up as absent.
CacheGet_DropSettled(w) ==
  IF Settled(serverCache[w]) /\ deferred[serverCache[w]].state = "resolved"
  THEN 0 ELSE serverCache[w]

\* Faulty variant: a failed entry is looked up as absent, so the next call retries.
CacheGet_RetryFailed(w) ==
  IF Settled(serverCache[w]) /\ deferred[serverCache[w]].state = "rejected"
  THEN 0 ELSE serverCache[w]

\* serverCache.get(workspaceFolder.uri.fsPath)
CacheGet(w) == serverCache[w]

\* Faulty variant: the entry is not stored before the first await.
CacheSet_Skipped(w, d) == serverCache

\* serverCache.set(workspaceFolder.uri.fsPath, serverDeferred)
CacheSet(w, d) == [serverCache EXCEPT ![w] = d]

\* What a call finds of the workspace's startup as it arrives.
JoinKind(w) ==
  IF serverCache[w] = 0 THEN "first"
  ELSE IF Settled(serverCache[w]) THEN "completed" ELSE "inflight"

\* ------------------------------------------------- the pass-through plugin
\* Compiled texts are 0..MaxText; 0 is the empty string.
MaxText == 2
\* emit() calls writeFile at most this many times in one run.
MaxEmitFiles == 2

\* `undefined`, as a text
Undefined == 0 - 1
Texts == 0..MaxText

\* context.path, split at "/": "/node_modules/lit.js" is
\* <<"", "node_modules", "lit.js">> and "/node_modules" is <<"", "node_modules">>.
JsPaths == { <<"", "node_modules", "lit.js">>,
             <<"", "node_modules">>,
             <<"", "src", "node_modules", "x.js">>,
             <<"", "src", "a.js">> }

\* Faulty variant: the prefix is written without its leading slash.
IsDependencyPath_NoLeadingSlash(jsPath) ==
  Len(jsPath) >= 2 /\ jsPath[1] = "node_modules"

\* jsPath.startsWith('/node_modules/')
IsDependencyPath(jsPath) ==
  Len(jsPath) >= 3 /\ jsPath[1] = "" /\ jsPath[2] = "node_modules"

\* workspaceFolder.uri.fsPath + jsPath, for the workspace "/ws"
FilePath(jsPath) == <<"", "ws">> \o Tail(jsPath)

FilePaths == {FilePath(p) : p \in JsPaths}

\* Faulty variant: a cached empty text counts as a miss (`if (result)`).
CacheLookup_Truthy(filePath) ==
  IF filePath \in DOMAIN fileCache /\ fileCache[filePath] # 0
  THEN fileCache[filePath] ELSE Undefined

\* fileCache.get(filePath)
CacheLookup(filePath) ==
  IF filePath \in DOMAIN fileCache THEN fileCache[filePath] ELSE Undefined

\* A file emit writes beside the compiled file (its source map).
SiblingPath(filePath) == Append(filePath, ".map")

\* One run of emit for the SourceFile of filePath: the (fileName, text)
\* pairs it hands to writeFile, in order.
EmitFiles(filePath) == [name : {filePath, SiblingPath(filePath)}, text : Texts]
EmitOutputs(filePath) ==
  UNION {[1..n -> EmitFiles(filePath)] : n \in 0..MaxEmitFiles}

\* Faulty variant: the writeFile callback takes every file emit writes.
EmitResult_AnyFile(out, filePath) ==
  IF Len(out) = 0 THEN [emitted |-> FALSE, result |-> Undefined]
  ELSE [emitted |-> TRUE, result |-> out[Len(out)].text]

\* The writeFile callback over a run of emit: `emitted` and `result` after
\* the last call.
EmitResult(out, filePath) ==
  LET hits == {i \in 1..Len(out) : out[i].name = filePath}
      last == CHOOSE i \in hits : \A j \in hits : j <= i
  IN IF hits = {} THEN [emitted |-> FALSE, result |-> Undefined]
     ELSE [emitted |-> TRUE, result |-> out[last].text]

\* lastServe: the request path, what serve() returned, what fileCache held
\* for the path as the request arrived, whether the analyzer was consulted
\* and emit was run, how many files emit wrote and the texts it wrote under
\* the requested path, and whether fileCache changed.
NoServe == [path |-> <<>>, result |-> Undefined, cachedBefore |-> Undefined,
            analyzerCalled |-> FALSE, emitCalled |-> FALSE,
            emitFiles |-> 0, written |-> {}, cacheChanged |-> FALSE]

InitPlugin ==
  /\ fileCache = <<>>
  /\ lastServe = NoServe

\* The texts a run of emit wrote under the name filePath.
WrittenAs(out, filePath) ==
  {out[i].text : i \in {j \in 1..Len(out) : out[j].name = filePath}}

Served(jsPath, result, analyzerCalled, emitCalled, out) ==
  LET filePath == FilePath(jsPath) IN
  lastServe' = [path |-> jsPath, result |-> result,
                cachedBefore |-> IF filePath \in DOMAIN fileCache
                                 THEN fileCache[filePath] ELSE Undefined,
                analyzerCalled |-> analyzerCalled,
                emitCalled |-> emitCalled,
                emitFiles |-> Len(out),
                written |-> WrittenAs(out, filePath),
                cacheChanged |-> (fileCache' # fileCache)]

\* passThroughPlugin.serve(context) for context.path = jsPath. mod is what
\* the analyzer knows of the file ("none": getModulePathFromJsPath returns
\* undefined; "noSource": the program has no SourceFile for the module;
\* "source": it has one) and out is what emit writes for that SourceFile.
serve(jsPath) ==
  LET filePath == FilePath(jsPath)
      cached == CacheLookup(filePath)
  IN
  /\ UNCHANGED <<serverVars, eventVars, contextVars, reactVars, reduxVars>>
  /\ IF IsDependencyPath(jsPath)
     THEN /\ UNCHANGED fileCache
          /\ Served(jsPath, Undefined, FALSE, FALSE, <<>>)
     ELSE IF cached # Undefined
     THEN /\ UNCHANGED fileCache
          /\ Served(jsPath, cached, FALSE, FALSE, <<>>)
     ELSE \E mod \in {"none", "noSource", "source"} :
       IF mod # "source"
       THEN /\ UNCHANGED fileCache
            /\ Served(jsPath, Undefined, TRUE, FALSE, <<>>)
       ELSE \E out \in EmitOutputs(filePath) :
         LET em == EmitResult(out, filePath) IN
         IF em.emitted
         THEN /\ fileCache' =
                   [k \in DOMAIN fileCache \cup {filePath} |->
                      IF k = filePath THEN em.result ELSE fileCache[k]]
              /\ Served(jsPath, em.result, TRUE, TRUE, out)
         ELSE /\ UNCHANGED fileCache
              /\ Served(jsPath, Undefined, TRUE, TRUE, out)

NextPlugin == \E jsPath \in JsPaths : serve(jsPath)

\* ------------------------------------------------ addOrUpdateEventListener
\* Number of handler objects created over a run.
MaxHandlers == 3

Nodes == {"n1", "n2"}
EventNames == {"click", "change"}
Listeners == {"f1", "f2"}
NoListener == "undefined"
NeverSupplied == "never"
HandlerIds == 1..MaxHandlers

InitEvents ==
  /\ listenedEvents = <<>>
  /\ handlers = [h \in HandlerIds |-> ""]
  /\ nextHandler = 1
  /\ domListeners = [ne \in Nodes \X EventNames |-> {}]
  /\ lastSupplied = [ne \in Nodes \X EventNames |-> NeverSupplied]
  /\ lastDispatch = [node |-> "", event |-> "", called |-> {},
                     supplied |-> NeverSupplied]

\* listenedEvents.get(node) in the WeakMap le, made a new Map when undefined
EventsIn(le, node) == IF node \in DOMAIN le THEN le[node] ELSE <<>>

EventsOf(node) == EventsIn(listenedEvents, node)

\* events.get(event): a handler object, or 0 for undefined
HandlerOf(events, event) ==
  IF event \in DOMAIN events THEN events[event] ELSE 0

\* the WeakMap le with node's Map set to events
WithEvents(le, node, events) ==
  [n \in DOMAIN le \cup {node} |-> IF n = node THEN events ELSE le[n]]

\* Faulty variant: a tracked handler keeps the listener it was created with.
UpdateHandler_Stale(hs, h, listener) == hs

\* handler.handleEvent = listener
UpdateHandler(hs, h, listener) == [hs EXCEPT ![h] = listener]

\* Faulty variant: the listener is removed from the DOM but stays tracked.
Untrack_Kept(events, event) == events

\* events.delete(event)
Untrack(events, event) ==
  [e \in DOMAIN events \ {event} |-> events[e]]

\* node.addEventListener(event, handler): the DOM keeps one entry per
\* (type, callback) pair.
AddDomListener(dom, node, event, h) ==
  [dom EXCEPT ![<<node, event>>] = @ \cup {h}]

\* node.removeEventListener(event, handler)
RemoveDomListener(dom, node, event, h) ==
  [dom EXCEPT ![<<node, event>>] = @ \ {h}]

\* The listeners as they are: the WeakMap, the handler objects, the next
\* handler object, the DOM's registrations, the listeners supplied last.
ListenerState ==
  [le |-> listenedEvents, hs |-> handlers, nh |-> nextHandler,
   dom |-> domListeners, sup |-> lastSupplied]

\* The body of addOrUpdateEventListener(node, event, listener), from the
\* listeners st to the listeners after the call.
AddOrUpdate(st, node, event, listener) ==
  LET events == EventsIn(st.le, node)
      handler == HandlerOf(events, event)
      sup == [st.sup EXCEPT ![<<node, event>>] = listener]
  IN
  IF listener # NoListener
  THEN IF handler = 0
       THEN [le |-> WithEvents(st.le, node,
                      [e \in DOMAIN events \cup {event} |->
                         IF e = event THEN st.nh ELSE events[e]]),
             hs |-> IF st.nh \in HandlerIds
                    THEN [st.hs EXCEPT ![st.nh] = listener] ELSE st.hs,
             nh |-> st.nh + 1,
             dom |-> AddDomListener(st.dom, node, event, st.nh),
             sup |-> sup]
       ELSE [st EXCEPT !.le = WithEvents(st.le, node, events),
                       !.hs = UpdateHandler(st.hs, handler, listener),
                       !.sup = sup]
  ELSE IF handler # 0
       THEN [st EXCEPT !.le = WithEvents(st.le, node, Untrack(events, event)),
                       !.dom = RemoveDomListener(st.dom, node, event, handler),
                       !.sup = sup]
       ELSE [st EXCEPT !.le = WithEvents(st.le, node, events), !.sup = sup]

\* The listeners become st; no handler object beyond the bound was created.
ListenersBecome(st) ==
  /\ st.nh <= MaxHandlers + 1
  /\ listenedEvents' = st.le
  /\ handlers' = st.hs
  /\ nextHandler' = st.nh
  /\ domListeners' = st.dom
  /\ lastSupplied' = st.sup

addOrUpdateEventListener(node, event, listener) ==
  /\ UNCHANGED <<serverVars, pluginVars, contextVars, reactVars, reduxVars,
                 lastDispatch>>
  /\ ListenersBecome(AddOrUpdate(ListenerState, node, event, listener))

\* The element fires `event`: the DOM calls handleEvent of every handler
\* object registered for it.
DispatchEvent(node, event) ==
  /\ UNCHANGED <<serverVars, pluginVars, contextVars, reactVars, reduxVars,
                 listenedEvents,
                 handlers, nextHandler, domListeners, lastSupplied>>
  /\ lastDispatch' =
       [node |-> node, event |-> event,
        called |-> {handlers[h] : h \in domListeners[<<node, event>>]},
        supplied |-> lastSupplied[<<node, event>>]]

NextEvents ==
  \/ \E node \in Nodes, event \in EventNames,
        listener \in Listeners \cup {NoListener} :
        addOrUpdateEventListener(node, event, listener)
  \/ \E node \in Nodes, event \in EventNames : DispatchEvent(node, event)

\* ------------------------------------------------------- createComponent
\* One component made by createComponent({events: {onClick: 'click'}}) for an
\* element class that adds the property `value` to HTMLElement. React runs
\* render(), the ref callbacks and componentDidMount / componentDidUpdate of
\* one commit synchronously, so a mount, an update and an unmount are one
\* action each.
Null == "null"
Undef == "undefined"
ForwardedRef == "__forwardedRef"
TheElement == "n1"

\* the `events` option: prop name -> event name
events == [k \in {"onClick"} |-> "click"]

\* `new Set(Object.keys(events ?? {}))`
eventProps == DOMAIN events

reservedReactProperties ==
  {"children", "localName", "ref", "style", "className"}

\* The names `k in HTMLElement.prototype` holds for, among the props used.
HTMLElementPrototype ==
  {"children", "localName", "style", "className", "title"}

\* The names `k in element.prototype` holds for: the element class extends
\* HTMLElement.
ElementPrototype == HTMLElementPrototype \cup {"value"}

\* The refs the application forwards: ref objects or ref functions.
UserRefs == {"r1", "r2"}

\* The values a prop is given by the application.
ValuesOf(k) ==
  CASE k = "onClick" -> Listeners \cup {Undef}
    [] k = "value" -> {"v1", "v2"}
    [] k = ForwardedRef -> UserRefs \cup {Null}
    [] OTHER -> {"a"}

AllValues == Listeners \cup UserRefs \cup {Undef, Null, "v1", "v2", "a"}

\* The props objects over the names in names; ForwardedComponent always adds
\* __forwardedRef.
PropsOver(names) ==
  UNION {{p \in [S \cup {ForwardedRef} -> AllValues] :
            \A k \in DOMAIN p : p[k] \in ValuesOf(k)} : S \in SUBSET names}

\* The props of the mounted component.
ClientProps == PropsOver({"onClick", "value"})

NoUpdate ==
  [kind |-> "none", fresh |-> FALSE, touched |-> {}, assigned |-> {},
   same |-> {}]

InitReact ==
  /\ phase = "new"
  /\ props = <<>>
  /\ _element = Null
  /\ _elementProps = <<>>
  /\ reactProps = <<>>
  /\ _userRef = Undef
  /\ _ref = Undef
  /\ refHeld = [r \in UserRefs |-> Undef]
  /\ elProp = [k \in ElementPrototype \ HTMLElementPrototype |-> Undef]
  /\ lastUpdate = NoUpdate

\* p[k] of a JavaScript object: undefined for a key it does not have
Get(p, k) == IF k \in DOMAIN p THEN p[k] ELSE Undef

\* Faulty variant: the HTMLElement.prototype test is left out.
IsElementProp_AnyOwn(k) ==
  \/ k \in eventProps
  \/ /\ k \notin reservedReactProperties
     /\ k \in ElementPrototype

\* the condition of render() under which a prop goes to this._elementProps
IsElementProp(k) ==
  \/ k \in eventProps
  \/ /\ k \notin reservedReactProperties
     /\ k \notin HTMLElementPrototype
     /\ k \in ElementPrototype

\* `k === 'className' ? 'class' : k`
ReactName(k) == IF k = "className" THEN "class" ELSE k

\* this._elementProps after the loop of render() over the props p
ElementPropsOf(p) ==
  [k \in {k \in DOMAIN p \ {ForwardedRef} : IsElementProp(k)} |-> p[k]]

\* the props object render() gives createElement, without its ref
ReactPropsOf(p) ==
  LET ks == {k \in DOMAIN p \ {ForwardedRef} : ~IsElementProp(k)}
  IN [a \in {ReactName(k) : k \in ks} |->
        p[CHOOSE k \in ks : ReactName(k) = a]]

\* `this.props.__forwardedRef ?? null`
UserRefOf(p) ==
  IF Get(p, ForwardedRef) \in {Undef, Null} THEN Null
  ELSE p[ForwardedRef]

\* Faulty variant: the callback made by the first render is kept for good.
NeedsNewRef_Once(ref, userRefNow, userRef) == ref = Undef

\* `this._ref === undefined || this._userRef !== userRef`
NeedsNewRef(ref, userRefNow, userRef) ==
  ref = Undef \/ userRefNow # userRef

\* setRef(ref, value): a ref function is called with value, a ref object has
\* its current set to value; held[ref] is the value ref was given last.
setRef(held, ref, value) == [held EXCEPT ![ref] = value]

\* The component's ref fields and the user refs.
RefState ==
  [element |-> _element, userRef |-> _userRef, held |-> refHeld]

\* The ref callback whose closure captured userRef, called with value.
CallRef(rs, userRef, value) ==
  [element |-> IF rs.element = Null THEN value ELSE rs.element,
   userRef |-> userRef,
   held |-> IF userRef # Null THEN setRef(rs.held, userRef, value)
            ELSE rs.held]

\* Faulty variant: an event prop is passed on whether or not it changed.
Differs_Always(value, old) == TRUE

\* `value !== old`
Differs(value, old) == value # old

\* The element es.el with its listeners es.ls, and what was done to them.
ElementState ==
  [ls |-> ListenerState, el |-> elProp, touched |-> {}, assigned |-> {}]

\* Faulty variant: a property is assigned only when its value changed.
AssignProperty_IfChanged(es, name, value, old) ==
  IF value # old
  THEN [es EXCEPT !.el = [@ EXCEPT ![name] = value],
                  !.assigned = @ \cup {name}]
  ELSE es

\* `node[name] = value`
AssignProperty(es, name, value, old) ==
  [es EXCEPT !.el = [@ EXCEPT ![name] = value],
             !.assigned = @ \cup {name}]

\* setProperty(node, name, value, old, events)
setProperty(es, node, name, value, old) ==
  LET event == Get(events, name)
  IN IF event # Undef
     THEN IF Differs(value, old)
          THEN [es EXCEPT !.ls = AddOrUpdate(es.ls, node, event, value),
                          !.touched = @ \cup {event}]
          ELSE es
     ELSE AssignProperty(es, name, value, old)

\* `oldProps ? oldProps[prop] : undefined`
OldValue(oldProps, hasOld, prop) ==
  IF hasOld THEN Get(oldProps, prop) ELSE Undef

\* the loop of _updateElement over the props named in names
RECURSIVE UpdateProps(_, _, _, _, _, _)
UpdateProps(es, names, element, p, oldProps, hasOld) ==
  IF names = {} THEN es
  ELSE LET prop == CHOOSE k \in names : TRUE
       IN UpdateProps(
            setProperty(es, element, prop, Get(p, prop),
                        OldValue(oldProps, hasOld, prop)),
            names \ {prop}, element, p, oldProps, hasOld)

\* Faulty variant: the props of the previous render that are no longer
\* included are set again, to undefined.
_updateElement_Unset(es, element, elementProps, p, oldProps, hasOld) ==
  IF element = Null THEN es
  ELSE UpdateProps(es,
         DOMAIN elementProps \cup
           {k \in DOMAIN oldProps \ {ForwardedRef} : IsElementProp(k)},
         element, p, oldProps, hasOld)

\* this._updateElement(oldProps) with this.props = p
_updateElement(es, element, elementProps, p, oldProps, hasOld) ==
  IF element = Null THEN es
  ELSE UpdateProps(es, DOMAIN elementProps, element, p, oldProps, hasOld)

\* One commit of the component with the props newProps: render(), the ref
\* callbacks React calls (a callback that was replaced is called with null,
\* the one that replaces it with the element), then componentDidMount
\* (hasOld = FALSE) or componentDidUpdate(the props before).
Commit(newProps, kind, hasOld) ==
  LET userRef == UserRefOf(newProps)
      fresh == NeedsNewRef(_ref, _userRef, userRef)
      ref == IF fresh THEN userRef ELSE _ref
      detached == IF fresh /\ _ref # Undef
                  THEN CallRef(RefState, _ref, Null) ELSE RefState
      attached == IF fresh THEN CallRef(detached, ref, TheElement)
                  ELSE detached
      elementProps == ElementPropsOf(newProps)
      es == _updateElement(ElementState, attached.element, elementProps,
                           newProps, props, hasOld)
  IN /\ props' = newProps
     /\ _elementProps' = elementProps
     /\ reactProps' = ReactPropsOf(newProps)
     /\ _ref' = ref
     /\ _element' = attached.element
     /\ _userRef' = attached.userRef
     /\ refHeld' = attached.held
     /\ elProp' = es.el
     /\ ListenersBecome(es.ls)
     /\ lastUpdate' =
          [kind |-> kind, fresh |-> fresh, touched |-> es.touched,
           assigned |-> es.assigned,
           same |-> {k \in DOMAIN elementProps :
                       Get(newProps, k) = OldValue(props, hasOld, k)}]
     /\ UNCHANGED <<serverVars, pluginVars, contextVars, reduxVars,
                    lastDispatch>>

\* The component is mounted: render(), the ref, componentDidMount().
Mount(newProps) ==
  /\ phase = "new"
  /\ phase' = "mounted"
  /\ Commit(newProps, "mount", FALSE)

\* The component is given new props: render(), the refs,
\* componentDidUpdate(old).
Update(newProps) ==
  /\ phase = "mounted"
  /\ UNCHANGED phase
  /\ Commit(newProps, "update", TRUE)

\* The component is unmounted: React calls its ref callback with null.
Unmount ==
  /\ phase = "mounted"
  /\ phase' = "unmounted"
  /\ LET detached == CallRef(RefState, _ref, Null)
     IN /\ _element' = detached.element
        /\ _userRef' = detached.userRef
        /\ refHeld' = detached.held
  /\ UNCHANGED <<serverVars, pluginVars, contextVars, reduxVars, eventVars,
                 props,
                 _elementProps, reactProps, _ref, elProp, lastUpdate>>

\* render() alone, as on a server: no element is made, no ref is called and
\* componentDidMount does not run.
Render(newProps) ==
  /\ phase = "new"
  /\ props' = newProps
  /\ _elementProps' = ElementPropsOf(newProps)
  /\ reactProps' = ReactPropsOf(newProps)
  /\ LET userRef == UserRefOf(newProps)
         fresh == NeedsNewRef(_ref, _userRef, userRef)
     IN /\ _ref' = IF fresh THEN userRef ELSE _ref
        /\ lastUpdate' = [NoUpdate EXCEPT !.kind = "render", !.fresh = fresh]
  /\ UNCHANGED <<serverVars, pluginVars, contextVars, reduxVars, eventVars,
                 phase,
                 _element, _userRef, refHeld, elProp>>

\* The props given to a component rendered on a server.
ServerProps ==
  PropsOver({"onClick", "value", "className", "title", "label"})

NextRender == \E newProps \in ServerProps : Render(newProps)

NextReact ==
  \/ \E newProps \in ClientProps : Mount(newProps)
  \/ \E newProps \in ClientProps : Update(newProps)
  \/ Unmount

\* ------------------------------------------------------ select / dispatch
\* One class field decorated with select(...) or dispatch(), and the
\* elements of the class. The Connector is known here by what the decorators
\* use of it: its constructor arguments, `selected` and `dispatch`.
\* The states of a store are 0..MaxState.
MaxState == 2

Hosts == {"h1", "h2"}
Selectors == {"whole", "parity"}
EqualityChecks == {"sameParity"}
StoreStates == 0..MaxState

\* `new Connector(this)`: no options
NoOptions ==
  [object |-> Undef, selector |-> Undef, equalityCheck |-> Undef]

\* The options objects an application passes to select(options).
GivenOptions ==
  [object : {"o1"}, selector : Selectors \cup {Undef},
   equalityCheck : EqualityChecks \cup {Undef}]

NoConnector ==
  [host |-> "", options |-> NoOptions, selected |-> Undefined,
   dispatch |-> ""]

NoRead ==
  [host |-> "", connector |-> 0, selected |-> Undefined, dispatch |-> ""]

InitRedux ==
  /\ decoration = [kind |-> "none", standard |-> FALSE, isObject |-> FALSE,
                   arguments |-> <<>>, options |-> NoOptions]
  /\ controllerMap = [h \in Hosts |-> 0]
  /\ connectors = [c \in 1..Cardinality(Hosts) |-> NoConnector]
  /\ nextConnector = 1
  /\ store = [h \in Hosts |-> 0]
  /\ lastRead = NoRead

\* The options of select(selectorOrOptions, equalityCheck): the object
\* itself when an object is given, else a new object with the two arguments.
SelectOptions(selectorOrOptions, isObject, equalityCheck) ==
  IF isObject THEN selectorOrOptions
  ELSE [object |-> "made", selector |-> selectorOrOptions,
        equalityCheck |-> equalityCheck]

\* options.selector(state); undefined without a selector
Select(options, state) ==
  CASE options.selector = "whole" -> state
    [] options.selector = "parity" -> state % 2
    [] OTHER -> Undefined

\* options.equalityCheck(a, b), strict equality by default
Equal(options, a, b) ==
  IF options.equalityCheck = "sameParity"
  THEN (a = Undefined) = (b = Undefined) /\ (a + 2) % 2 = (b + 2) % 2
  ELSE a = b

\* new Connector(host, options)
NewConnector(host, options) ==
  [host |-> host, options |-> options,
   selected |-> Select(options, store[host]), dispatch |-> host]

\* Faulty variant: one controller is kept for the class, not one per element.
ControllerMapSet_Shared(map, element, c) == [h \in DOMAIN map |-> c]

\* controllerMap.set(element, c)
ControllerMapSet(map, element, c) == [map EXCEPT ![element] = c]

\* The class is defined: the decorator select(selector, equalityCheck),
\* select(options) or dispatch() is applied to the field, as a standard or
\* as an experimental decorator.
Decorate(kind, standard, selectorOrOptions, isObject, equalityCheck) ==
  /\ decoration.kind = "none"
  /\ decoration' =
       [kind |-> kind, standard |-> standard, isObject |-> isObject,
        arguments |-> IF kind = "select"
                      THEN <<selectorOrOptions, equalityCheck>> ELSE <<>>,
        options |-> IF kind = "select"
                    THEN SelectOptions(selectorOrOptions, isObject,
                                       equalityCheck)
                    ELSE NoOptions]
  /\ UNCHANGED <<serverVars, pluginVars, eventVars, contextVars, reactVars,
                 controllerMap, connectors, nextConnector, store, lastRead>>

\* An element is constructed: the initializer the decorator added runs.
Construct(element) ==
  /\ decoration.kind # "none"
  /\ controllerMap[element] = 0
  /\ connectors' =
       [connectors EXCEPT ![nextConnector] =
          NewConnector(element, decoration.options)]
  /\ controllerMap' = ControllerMapSet(controllerMap, element, nextConnector)
  /\ nextConnector' = nextConnector + 1
  /\ UNCHANGED <<serverVars, pluginVars, eventVars, contextVars, reactVars,
                 decoration, store, lastRead>>

\* The store of an element changes: its Connectors select again, and keep
\* the selected value when the equality check says it is the same.
StoreChanges(element, state) ==
  /\ store' = [store EXCEPT ![element] = state]
  /\ connectors' =
       [c \in DOMAIN connectors |->
          IF connectors[c].host = element /\ decoration.kind = "select"
             /\ ~Equal(connectors[c].options, connectors[c].selected,
                       Select(connectors[c].options, state))
          THEN [connectors[c] EXCEPT
                  !.selected = Select(connectors[c].options, state)]
          ELSE connectors[c]]
  /\ UNCHANGED <<serverVars, pluginVars, eventVars, contextVars, reactVars,
                 decoration, controllerMap, nextConnector, lastRead>>

\* The getter of the field: controllerMap.get(this)!.selected, or .dispatch
ReadField(element) ==
  /\ controllerMap[element] # 0
  /\ LET c == connectors[controllerMap[element]]
     IN lastRead' =
          [host |-> element, connector |-> controllerMap[element],
           selected |-> IF decoration.kind = "select" THEN c.selected
                        ELSE Undefined,
           dispatch |-> IF decoration.kind = "dispatch" THEN c.dispatch
                        ELSE ""]
  /\ UNCHANGED <<serverVars, pluginVars, eventVars, contextVars, reactVars,
                 decoration, controllerMap, connectors, nextConnector, store>>

NextRedux ==
  \/ \E standard \in BOOLEAN, selector \in Selectors,
        equalityCheck \in EqualityChecks \cup {Undef} :
        Decorate("select", standard, selector, FALSE, equalityCheck)
  \/ \E standard \in BOOLEAN, options \in GivenOptions :
        Decorate("select", standard, options, TRUE, Undef)
  \/ \E standard \in BOOLEAN :
        Decorate("dispatch", standard, Undef, FALSE, Undef)
  \/ \E element \in Hosts : Construct(element)
  \/ \E element \in Hosts, state \in StoreStates : StoreChanges(element, state)
  \/ \E element \in Hosts : ReadField(element)

\* ------------------------------------------------- provide / consume
\* Provided values are 0..MaxValue.
MaxValue == 3

\* `public accessor consumeOptionalWithDefault: number | undefined = 0`
ConsumerDefault == 0

\* <context-provider value="${1000 + i}"><context-consumer> ... : consumer i
\* is the child of provider i.
Providers == {1, 2}
Consumers == {1, 2}
Values == 0..MaxValue
NotRendered == 0 - 1

\* The provider whose subtree holds the consumer.
ParentOf(c) == c

\* The value attribute of the provider in the fixture.
InitialValue(p) == p

InitContext ==
  /\ providerValue = [p \in Providers |-> InitialValue(p)]
  /\ subscribers = [p \in Providers |-> {}]
  /\ consumerValue = [c \in Consumers |-> ConsumerDefault]
  /\ connected = [c \in Consumers |-> FALSE]
  /\ subscribedTo = [c \in Consumers |-> 0]
  /\ updatePending = [c \in Consumers |-> FALSE]
  /\ rendered = [c \in Consumers |-> NotRendered]

\* Faulty variant: the request is answered by the first provider of the document.
AnsweringProvider_First(c) == CHOOSE p \in Providers : \A q \in Providers : p <= q

\* The provider a consumer's context request reaches: the nearest enclosing
\* provider of the context.
AnsweringProvider(c) == ParentOf(c)

\* Faulty variant: a provider notifies the consumers subscribed to any provider.
Notified_All(p) == UNION {subscribers[q] : q \in Providers}

\* The consumers a provider notifies of a new value.
Notified(p) == subscribers[p]

\* The consumer is connected: its context request is answered at once with
\* the provider's value, which replaces the consumer's own default, and the
\* provider keeps the subscription.
ConsumerConnects(c) ==
  LET p == AnsweringProvider(c) IN
  /\ ~connected[c]
  /\ connected' = [connected EXCEPT ![c] = TRUE]
  /\ consumerValue' = [consumerValue EXCEPT ![c] = providerValue[p]]
  /\ subscribers' = [subscribers EXCEPT ![p] = @ \cup {c}]
  /\ subscribedTo' = [subscribedTo EXCEPT ![c] = p]
  /\ updatePending' = [updatePending EXCEPT ![c] = TRUE]
  /\ UNCHANGED <<serverVars, pluginVars, eventVars, reactVars, reduxVars,
                 providerValue, rendered>>

\* provider.value = v: the subscribed consumers are notified within the
\* assignment; each sets its property and requests an update.
ProviderSets(p, v) ==
  /\ providerValue' = [providerValue EXCEPT ![p] = v]
  /\ consumerValue' = [c \in Consumers |->
                         IF c \in Notified(p) THEN v ELSE consumerValue[c]]
  /\ updatePending' = [c \in Consumers |->
                         IF c \in Notified(p) /\ v # providerValue[p]
                         THEN TRUE ELSE updatePending[c]]
  /\ UNCHANGED <<serverVars, pluginVars, eventVars, reactVars, reduxVars,
                 subscribers, connected,
                 subscribedTo, rendered>>

\* The consumer's update runs (consumer.updateComplete resolves).
ConsumerUpdates(c) ==
  /\ updatePending[c]
  /\ updatePending' = [updatePending EXCEPT ![c] = FALSE]
  /\ rendered' = [rendered EXCEPT ![c] = consumerValue[c]]
  /\ UNCHANGED <<serverVars, pluginVars, eventVars, reactVars, reduxVars,
                 providerValue,
                 subscribers, consumerValue, connected, subscribedTo>>

\* consumer.remove(): the consumer unsubscribes and keeps its last value.
ConsumerDisconnects(c) ==
  /\ connected[c]
  /\ connected' = [connected EXCEPT ![c] = FALSE]
  /\ subscribers' = [p \in Providers |-> subscribers[p] \ {c}]
  /\ subscribedTo' = [subscribedTo EXCEPT ![c] = 0]
  /\ UNCHANGED <<serverVars, pluginVars, eventVars, reactVars, reduxVars,
                 providerValue,
                 consumerValue, updatePending, rendered>>

NextContext ==
  \/ \E c \in Consumers : ConsumerConnects(c)
  \/ \E p \in Providers, v \in Values : ProviderSets(p, v)
  \/ \E c \in Consumers : ConsumerUpdates(c)
  \/ \E c \in Consumers : ConsumerDisconnects(c)

\* ------------------------------------------------------------------- Init
InitServer ==
  /\ serverCache = [w \in Workspaces |-> 0]
  /\ deferred = [c \in Calls |-> NoDeferred]
  /\ callPc = [c \in Calls |-> "idle"]
  /\ callWs = [c \in Calls |-> "none"]
  /\ callPromise = [c \in Calls |-> 0]
  /\ callOutcome = [c \in Calls |-> NoDeferred]
  /\ joined = [c \in Calls |-> "none"]
  /\ startPc = [c \in Calls |-> "none"]
  /\ uiServer = [c \in Calls |-> "none"]
  /\ analyzer = [c \in Calls |-> "none"]
  /\ listening = [c \in Calls |-> FALSE]
  /\ actualPort = [c \in Calls |-> PlaceholderPort]
  /\ lazyPort = [c \in Calls |-> PlaceholderPort]
  /\ startups = [w \in Workspaces |-> 0]
  /\ devStarted = [w \in Workspaces |-> 0]
  /\ startFail = [c \in Calls |-> NoError]
  /\ lastStory = <<0, PlaceholderPort>>

\* -------------------------------------------------------- getProjectServer
\* Call c of getProjectServer(workspaceFolder), from its entry to its first
\* await (a first call) or to its return (a later call). getUiServer() and
\* getAnalyzer() are both invoked before Promise.all is awaited; sync says
\* whether getAnalyzer threw synchronously, which the try block catches.
getProjectServer(c, w, sync) ==
  /\ UNCHANGED <<pluginVars, eventVars, contextVars, reactVars, reduxVars>>
  /\ callPc[c] = "idle"
  /\ \A k \in 1..(c - 1) : callPc[k] # "idle"  \* calls are numbered as they arrive
  /\ callWs' = [callWs EXCEPT ![c] = w]
  /\ joined' = [joined EXCEPT ![c] = JoinKind(w)]
  /\ IF CacheGet(w) = 0
     THEN /\ serverCache' = CacheSet(w, c)
          /\ startups' = [startups EXCEPT ![w] = @ + 1]
          /\ callPromise' = [callPromise EXCEPT ![c] = c]
          /\ uiServer' = [uiServer EXCEPT ![c] = "pending"]
          /\ IF sync = "throws"
             THEN /\ deferred' = RejectDeferred(
                                    [deferred EXCEPT ![c] = NewDeferred],
                                    c, "analyzerError")
                  /\ startFail' = [startFail EXCEPT ![c] = "analyzerError"]
                  /\ analyzer' = [analyzer EXCEPT ![c] = "failed"]
                  /\ startPc' = [startPc EXCEPT ![c] = "done"]
                  /\ callPc' = [callPc EXCEPT ![c] = "waiting"]
             ELSE /\ deferred' = [deferred EXCEPT ![c] = NewDeferred]
                  /\ analyzer' = [analyzer EXCEPT ![c] = "pending"]
                  /\ startPc' = [startPc EXCEPT ![c] = "awaitAll"]
                  /\ callPc' = [callPc EXCEPT ![c] = "starting"]
                  /\ UNCHANGED startFail
     ELSE /\ callPromise' = [callPromise EXCEPT ![c] = CacheGet(w)]
          /\ callPc' = [callPc EXCEPT ![c] = "waiting"]
          /\ UNCHANGED <<serverCache, startups, uiServer, analyzer, deferred,
                         startPc, startFail>>
  /\ UNCHANGED <<callOutcome, listening, actualPort, lazyPort, devStarted,
                 lastStory>>

\* The catch block: reject the shared Deferred; the function then returns
\* serverDeferred.promise.
StartupFails(c, e) ==
  /\ deferred' = RejectDeferred(deferred, c, e)
  /\ startFail' = [startFail EXCEPT ![c] = e]
  /\ startPc' = [startPc EXCEPT ![c] = "done"]
  /\ callPc' = [callPc EXCEPT ![c] = "waiting"]
  /\ UNCHANGED <<devStarted, lazyPort>>

\* Promise.all resolved: read the UI server's address and call startServer,
\* which runs to its await of wds.startDevServer.
StartupContinues(c, ui) ==
  IF ui = "noServer"
  THEN StartupFails(c, "addressError")
  ELSE /\ startPc' = [startPc EXCEPT ![c] = "awaitStart"]
       /\ devStarted' = [devStarted EXCEPT ![callWs[c]] = @ + 1]
       /\ lazyPort' = [lazyPort EXCEPT ![c] = PlaceholderPort]
       /\ UNCHANGED <<deferred, startFail, callPc>>

\* Faulty variant: the startup goes on as soon as one of the two is there.
AllFulfilled_Either(ui, an) == ui \in {"ok", "noServer"} \/ an = "ok"

\* Promise.all([getUiServer(), getAnalyzer(workspaceFolder)]) is fulfilled:
\* both promises are.
AllFulfilled(ui, an) == ui \in {"ok", "noServer"} /\ an = "ok"

StillAwaiting ==
  UNCHANGED <<deferred, startFail, startPc, callPc, devStarted, lazyPort>>

\* The getUiServer() promise settles: fulfilled with a UI server whose
\* `server` is set ("ok") or not ("noServer"), or rejected.
UiServerSettles(c, r) ==
  /\ UNCHANGED <<pluginVars, eventVars, contextVars, reactVars, reduxVars>>
  /\ startPc[c] = "awaitAll"
  /\ uiServer[c] = "pending"
  /\ uiServer' = [uiServer EXCEPT ![c] = r]
  /\ IF r = "failed" THEN StartupFails(c, "uiServerError")
     ELSE IF AllFulfilled(r, analyzer[c]) THEN StartupContinues(c, r)
     ELSE StillAwaiting
  /\ UNCHANGED <<serverCache, callWs, callPromise, callOutcome, joined,
                 analyzer, listening, actualPort, startups, lastStory>>

\* The getAnalyzer() promise settles.
AnalyzerSettles(c, r) ==
  /\ UNCHANGED <<pluginVars, eventVars, contextVars, reactVars, reduxVars>>
  /\ startPc[c] = "awaitAll"
  /\ analyzer[c] = "pending"
  /\ analyzer' = [analyzer EXCEPT ![c] = r]
  /\ IF r = "failed" THEN StartupFails(c, "analyzerError")
     ELSE IF AllFulfilled(uiServer[c], r)
          THEN StartupContinues(c, uiServer[c])
     ELSE StillAwaiting
  /\ UNCHANGED <<serverCache, callWs, callPromise, callOutcome, joined,
                 uiServer, listening, actualPort, startups, lastStory>>

\* ------------------------------------------------------------- startServer
\* Inside wds.startDevServer the HTTP server begins to listen on port p; the
\* promise startServer awaits is still pending.
DevServerListens(c, p) ==
  /\ UNCHANGED <<pluginVars, eventVars, contextVars, reactVars, reduxVars>>
  /\ startPc[c] = "awaitStart"
  /\ ~listening[c]
  /\ listening' = [listening EXCEPT ![c] = TRUE]
  /\ actualPort' = [actualPort EXCEPT ![c] = p]
  /\ UNCHANGED <<serverCache, deferred, callPc, callWs, callPromise,
                 callOutcome, joined, startPc, uiServer, analyzer, lazyPort,
                 startups, devStarted, startFail, lastStory>>

\* `devServer.server?.address()` of a listening TCP server, and its port.
AddressPort(c) == actualPort[c]

\* wds.startDevServer resolved: startServer stores the port and returns the
\* server, and getProjectServer resolves the Deferred with it.
StartDevServerResolves(c) ==
  /\ UNCHANGED <<pluginVars, eventVars, contextVars, reactVars, reduxVars>>
  /\ startPc[c] = "awaitStart"
  /\ listening[c]
  /\ lazyPort' = [lazyPort EXCEPT ![c] = AddressPort(c)]
  /\ deferred' = ResolveDeferred(deferred, c, c)
  /\ startPc' = [startPc EXCEPT ![c] = "done"]
  /\ callPc' = [callPc EXCEPT ![c] = "waiting"]
  /\ UNCHANGED <<serverCache, callWs, callPromise, callOutcome, joined,
                 uiServer, analyzer, listening, actualPort, startups,
                 devStarted, startFail, lastStory>>

\* wds.startDevServer rejected.
StartDevServerRejects(c) ==
  /\ UNCHANGED <<pluginVars, eventVars, contextVars, reactVars, reduxVars>>
  /\ startPc[c] = "awaitStart"
  /\ StartupFails(c, "startServerError")
  /\ UNCHANGED <<serverCache, callWs, callPromise, callOutcome, joined,
                 uiServer, analyzer, listening, actualPort, startups,
                 lastStory>>

\* ----------------------------------------------------------- getMiddleware
\* GET /story/:path on the dev server call c started: the page is rendered
\* with lazyAddress.port as it is when the request is handled.
StoryRequest(c) ==
  /\ UNCHANGED <<pluginVars, eventVars, contextVars, reactVars, reduxVars>>
  /\ listening[c]
  /\ lastStory' = <<c, lazyPort[c]>>
  /\ UNCHANGED <<serverCache, deferred, callPc, callWs, callPromise,
                 callOutcome, joined, startPc, uiServer, analyzer, listening,
                 actualPort, lazyPort, startups, devStarted, startFail>>

\* ------------------------------------------------------------- the callers
\* The caller of call c sees the promise it was given settle.
Observe(c) ==
  /\ UNCHANGED <<pluginVars, eventVars, contextVars, reactVars, reduxVars>>
  /\ callPc[c] = "waiting"
  /\ Settled(callPromise[c])
  /\ callOutcome' = [callOutcome EXCEPT ![c] = deferred[callPromise[c]]]
  /\ callPc' = [callPc EXCEPT ![c] = "done"]
  /\ UNCHANGED <<serverCache, deferred, callWs, callPromise, joined, startPc,
                 uiServer, analyzer, listening, actualPort, lazyPort,
                 startups, devStarted, startFail, lastStory>>

Init ==
  /\ InitServer /\ InitPlugin /\ InitEvents /\ InitContext /\ InitReact
  /\ InitRedux

\* The steps of getProjectServer and startServer, and of their callers.
NextStartup ==
  \/ \E c \in Calls, w \in Workspaces, sync \in {"ok", "throws"} :
        getProjectServer(c, w, sync)
  \/ \E c \in Calls, r \in {"ok", "noServer", "failed"} : UiServerSettles(c, r)
  \/ \E c \in Calls, r \in {"ok", "failed"} : AnalyzerSettles(c, r)
  \/ \E c \in Calls, p \in Ports : DevServerListens(c, p)
  \/ \E c \in Calls : StartDevServerResolves(c)
  \/ \E c \in Calls : StartDevServerRejects(c)
  \/ \E c \in Calls : Observe(c)

Next ==
  \/ NextStartup
  \/ \E c \in Calls : StoryRequest(c)

Spec == Init /\ [][Next]_vars

\* The startup alone (a story request changes nothing the startup or its
\* callers read). Promise reactions are run by the microtask queue, in
\* order: while a caller's promise has settled and it has not been told, one
\* is told.
FairSpec ==
  Init /\ [][NextStartup]_vars /\ WF_vars(\E c \in Calls : Observe(c))

\* The plugin of one dev server, from the creation of its fileCache.
SpecPlugin == Init /\ [][NextPlugin]_vars

\* The listeners of the wrapped elements, under any sequence of calls.
SpecEvents == Init /\ [][NextEvents]_vars

\* One wrapped element, under any sequence of props.
SpecReact == Init /\ [][NextReact]_vars

\* The renders of a component that is never mounted.
SpecRender == Init /\ [][NextRender]_vars

\* A decorated field, the elements of its class and their stores.
SpecRedux == Init /\ [][NextRedux]_vars

\* Providers and consumers, under any sequence of value changes.
SpecContext == Init /\ [][NextContext]_vars

\* ------------------------------------------------------------------ claims
CallsFor(w) == {c \in Calls : callPc[c] # "idle" /\ callWs[c] = w}

\* C1: however many getProjectServer calls are made for a workspace path, and
\* however they interleave with the first startup's awaits, the startup
\* sequence is entered at most once and at most one dev server is started
\* for that workspace.
C1_StartupAtMostOnce ==
  \A w \in Workspaces :
    /\ startups[w] <= 1
    /\ devStarted[w] <= 1
    /\ Cardinality({c \in CallsFor(w) : startPc[c] # "none"}) <= 1

\* Three calls for one workspace, the later two made while the first startup
\* was awaiting, and one dev server started.
C1_Witness ==
  \E w \in Workspaces :
    /\ Cardinality(CallsFor(w)) = 3
    /\ Cardinality({c \in CallsFor(w) : joined[c] = "inflight"}) = 2
    /\ devStarted[w] = 1

\* C2: every call for a workspace path is given the promise of the Deferred
\* the first call created, and every caller that has seen it settle has seen
\* the same outcome (the same server handle).
C2_SameDeferred ==
  \A w \in Workspaces : \A c \in CallsFor(w) :
    /\ callPromise[c] = serverCache[w]
    /\ joined[callPromise[c]] = "first"
    /\ \A k \in CallsFor(w) :
         /\ callPromise[k] = callPromise[c]
         /\ (callPc[c] = "done" /\ callPc[k] = "done")
              => callOutcome[c] = callOutcome[k]
    /\ callPc[c] = "done" => callOutcome[c] = deferred[serverCache[w]]

\* A first caller, one that joined in flight and one that came after the
\* startup completed have all seen the same resolved server.
C2_Witness ==
  \E w \in Workspaces : \E a, b, c \in CallsFor(w) :
    /\ joined[a] = "first" /\ joined[b] = "inflight" /\ joined[c] = "completed"
    /\ callPc[a] = "done" /\ callPc[b] = "done" /\ callPc[c] = "done"
    /\ callOutcome[a].state = "resolved"
    /\ callOutcome[c].server = a

\* C3: when a step of the startup fails, the shared Deferred is rejected with
\* that error, no caller of the workspace sees a resolved server, and every
\* caller waiting on the workspace's server comes to see the failure.
C3_FailureRejects ==
  \A c \in Calls : startFail[c] # NoError =>
    /\ deferred[c].state = "rejected"
    /\ deferred[c].error = startFail[c]
    /\ \A k \in Calls : (callPromise[k] = c /\ callPc[k] = "done") =>
         /\ callOutcome[k].state = "rejected"
         /\ callOutcome[k].error = startFail[c]

C3_AllWaitersSeeFailure ==
  \A k \in Calls :
    (callPromise[k] # 0 /\ startFail[callPromise[k]] # NoError)
      ~> (callPc[k] = "done" /\ callOutcome[k].state = "rejected")

C3_FailureSeenByAll == []C3_FailureRejects /\ C3_AllWaitersSeeFailure

\* A startup that failed in startServer, seen as a rejection by the first
\* caller and by a caller that joined while it was in flight.
C3_Witness ==
  \E a, b \in Calls :
    /\ startFail[a] = "startServerError"
    /\ joined[b] = "inflight" /\ callPromise[b] = a
    /\ callPc[a] = "done" /\ callPc[b] = "done"
    /\ callOutcome[b].error = "startServerError"

\* C4: once the startup of a workspace has failed, its rejected Deferred
\* stays in serverCache: no step removes or replaces the entry, changes the
\* rejection or starts another startup, and a call made afterwards is given
\* that same rejected Deferred.
C4_Step ==
  \A w \in Workspaces :
    (serverCache[w] # 0 /\ deferred[serverCache[w]].state = "rejected") =>
      /\ serverCache'[w] = serverCache[w]
      /\ deferred'[serverCache[w]] = deferred[serverCache[w]]
      /\ startups'[w] = startups[w]
      /\ \A c \in Calls : (callPc[c] = "idle" /\ callPc'[c] # "idle"
                             /\ callWs'[c] = w) =>
           /\ callPromise'[c] = serverCache[w]
           /\ startPc'[c] = "none"

C4_FailureIsSticky == [][C4_Step]_vars

\* A call made after the workspace's startup had failed has seen the
\* rejection of the first call's Deferred.
C4_Witness ==
  \E w \in Workspaces : \E c \in CallsFor(w) :
    /\ joined[c] = "completed"
    /\ callPc[c] = "done"
    /\ callOutcome[c].state = "rejected"
    /\ startups[w] = 1

\* C11: a first call has requested both the UI server and the analyzer by
\* the time it awaits; startServer is invoked for a workspace only once both
\* have completed successfully, and never when either of them failed.
C11_StartServerAfterBoth ==
  \A c \in Calls : startPc[c] # "none" =>
    /\ uiServer[c] # "none" /\ analyzer[c] # "none"
    /\ (startPc[c] = "awaitStart" \/ devStarted[callWs[c]] > 0)
         => (uiServer[c] = "ok" /\ analyzer[c] = "ok")
    /\ (uiServer[c] = "failed" \/ analyzer[c] = "failed")
         => (devStarted[callWs[c]] = 0 /\ ~listening[c])

\* startServer runs for one workspace after both promises were fulfilled,
\* while the other workspace's analyzer failed after its UI server was there
\* and no server was started for it.
C11_Witness ==
  \E a, b \in Calls :
    /\ startPc[a] = "awaitStart" /\ devStarted[callWs[a]] = 1
    /\ uiServer[a] = "ok" /\ analyzer[a] = "ok"
    /\ callWs[b] # callWs[a] /\ startPc[b] = "done"
    /\ uiServer[b] = "ok" /\ analyzer[b] = "failed"
    /\ devStarted[callWs[b]] = 0

\* C7: every /story/:path page is rendered with the port its dev server
\* listens on, never with the placeholder.
C7_StoryPortIsActual ==
  lastStory[1] # 0 =>
    /\ lastStory[2] = actualPort[lastStory[1]]
    /\ lastStory[2] # PlaceholderPort

\* C5: a request for a path fileCache already holds is answered with the
\* cached text and without running emit; no step changes or removes an entry
\* of fileCache; and an entry is only ever set, by the request for its own
\* path, to a text emit wrote under exactly that path.
C5_CachedServe ==
  lastServe.cachedBefore # Undefined =>
    /\ lastServe.result = lastServe.cachedBefore
    /\ ~lastServe.emitCalled
    /\ ~lastServe.analyzerCalled
    /\ ~lastServe.cacheChanged

C5_CacheStep ==
  /\ \A k \in DOMAIN fileCache :
       k \in DOMAIN fileCache' /\ fileCache'[k] = fileCache[k]
  /\ \A k \in DOMAIN fileCache' \ DOMAIN fileCache :
       /\ k = FilePath(lastServe'.path)
       /\ lastServe'.emitCalled
       /\ fileCache'[k] \in lastServe'.written
       /\ fileCache'[k] = lastServe'.result

C5_CacheIsStable == []C5_CachedServe /\ [][C5_CacheStep]_vars

\* A request answered from the cache with the empty text compiled earlier,
\* while another file is cached too.
C5_Witness ==
  /\ lastServe.path = <<"", "src", "a.js">>
  /\ lastServe.cachedBefore = 0
  /\ lastServe.result = 0
  /\ Cardinality(DOMAIN fileCache) >= 2

\* C6: when the compilation of a requested file is attempted and yields no
\* output for the path (no module, no SourceFile, or emit wrote no file of
\* that name), serve() returns nothing and fileCache is left as it was.
C6_NoOutputFallsBack ==
  (lastServe.analyzerCalled /\ lastServe.written = {}) =>
    /\ lastServe.result = Undefined
    /\ ~lastServe.cacheChanged
    /\ FilePath(lastServe.path) \notin DOMAIN fileCache

\* emit ran and wrote files, none of them under the requested path.
C6_Witness ==
  /\ lastServe.emitCalled
  /\ lastServe.emitFiles > 0
  /\ lastServe.written = {}
  /\ lastServe.result = Undefined

\* C10: a request whose path starts with /node_modules/ gets no result, and
\* neither the analyzer nor the compiler is consulted nor fileCache changed
\* for it.
C10_DependencySkipped ==
  (Len(lastServe.path) >= 3 /\ lastServe.path[1] = ""
     /\ lastServe.path[2] = "node_modules") =>
    /\ lastServe.result = Undefined
    /\ ~lastServe.analyzerCalled
    /\ ~lastServe.emitCalled
    /\ ~lastServe.cacheChanged
    /\ FilePath(lastServe.path) \notin DOMAIN fileCache

\* A /node_modules/ request skipped by a plugin that has compiled files.
C10_Witness ==
  /\ lastServe.path = <<"", "node_modules", "lit.js">>
  /\ lastServe.result = Undefined
  /\ DOMAIN fileCache # {}

\* C9: after any sequence of addOrUpdateEventListener calls, each (node,
\* event) pair has at most one DOM listener, the tracked handler map holds
\* an entry for the pair exactly when a listener is registered, and that
\* handler dispatches to the listener supplied last for the pair.
C9_OneListenerPerEvent ==
  /\ \A node \in Nodes, event \in EventNames :
       LET h == HandlerOf(EventsOf(node), event)
           dom == domListeners[<<node, event>>]
       IN /\ Cardinality(dom) <= 1
          /\ h # 0 <=> dom # {}
          /\ h # 0 => /\ dom = {h}
                       /\ handlers[h] = lastSupplied[<<node, event>>]
          /\ h # 0 <=> lastSupplied[<<node, event>>] \in Listeners
  /\ lastDispatch.called =
       IF lastDispatch.supplied \in Listeners
       THEN {lastDispatch.supplied} ELSE {}

\* An event dispatched to the second listener supplied for a pair, through
\* the handler registered for the first, after another pair's listener was
\* removed.
C9_Witness ==
  \E node \in Nodes, event \in EventNames :
    /\ lastDispatch.node = node /\ lastDispatch.event = event
    /\ lastDispatch.called = {"f2"}
    /\ HandlerOf(EventsOf(node), event) = 1
    /\ nextHandler > 2
    /\ \E e2 \in EventNames : lastSupplied[<<node, e2>>] = NoListener

\* The listeners kept for the wrapped element.
ElementListeners == <<listenedEvents, handlers, nextHandler, domListeners>>

\* C12: in the last mount or update, addOrUpdateEventListener was called
\* for exactly the event props whose value differed from the old one, and
\* every prop that is not an event was assigned to the element, changed or
\* not; an undefined handler registers nothing on mount.
C12_LastUpdate ==
  lastUpdate.kind \in {"mount", "update"} =>
    /\ lastUpdate.touched =
         {events[k] : k \in (DOMAIN _elementProps \cap eventProps)
                               \ lastUpdate.same}
    /\ lastUpdate.assigned = DOMAIN _elementProps \ eventProps
    /\ \A k \in lastUpdate.assigned : elProp[k] = props[k]
    /\ (lastUpdate.kind = "mount" /\ Get(props, "onClick") = Undef)
         => domListeners[<<TheElement, "click">>] = {}

\* C12: an update that leaves an event prop's value as it was leaves the
\* element's listeners as they were.
C12_SameHandlerStep ==
  (phase = "mounted" /\ phase' = "mounted"
     /\ Get(props', "onClick") = Get(props, "onClick"))
    => UNCHANGED ElementListeners

C12_EventPropsDirtyChecked ==
  []C12_LastUpdate /\ [][C12_SameHandlerStep]_vars

\* An update gave the same handler and the same property value again: the
\* listener registered at an earlier commit is untouched, the property was
\* assigned.
C12_Witness ==
  /\ lastUpdate.kind = "update"
  /\ lastUpdate.same = {"onClick", "value"}
  /\ props["onClick"] = "f1"
  /\ lastUpdate.touched = {}
  /\ lastUpdate.assigned = {"value"}
  /\ domListeners[<<TheElement, "click">>] # {}

\* the handler object tracked for the element's click event (0: none)
ClickHandler(le) == HandlerOf(EventsIn(le, TheElement), "click")

\* C13: an update that gives undefined to an event prop whose listener is
\* registered removes the DOM listener and deletes the tracked handler; a
\* commit that gives it a function leaves a listener registered; and there
\* is never more than one listener for the event on the element.
C13_Step ==
  /\ (/\ phase = "mounted" /\ phase' = "mounted"
      /\ domListeners[<<TheElement, "click">>] # {}
      /\ "onClick" \in DOMAIN props' /\ props'["onClick"] = Undef)
       => /\ domListeners'[<<TheElement, "click">>] = {}
          /\ ClickHandler(listenedEvents') = 0
  /\ (phase' = "mounted" /\ Get(props', "onClick") \in Listeners)
       => /\ domListeners'[<<TheElement, "click">>] # {}
          /\ ClickHandler(listenedEvents') # 0
  /\ Cardinality(domListeners'[<<TheElement, "click">>]) <= 1

C13_UndefinedRemovesListener == [][C13_Step]_vars

\* C14: an update whose props no longer include a prop leaves the element's
\* property of that name as it was, and an update that no longer includes
\* the event prop leaves the registered listener as it was.
C14_Step ==
  (phase = "mounted" /\ phase' = "mounted") =>
    /\ \A k \in DOMAIN elProp :
         k \notin DOMAIN props' => elProp'[k] = elProp[k]
    /\ "onClick" \notin DOMAIN props' => UNCHANGED ElementListeners

C14_OmittedPropsLeftAsIs == [][C14_Step]_vars

\* After an update without value and onClick, the element still has the
\* value and the listener an earlier commit gave it.
C14_Witness ==
  /\ lastUpdate.kind = "update"
  /\ DOMAIN props = {ForwardedRef}
  /\ elProp["value"] = "v2"
  /\ domListeners[<<TheElement, "click">>] # {}
  /\ handlers[ClickHandler(listenedEvents)] = "f2"

\* C15: after a render every prop but __forwardedRef is in exactly one of
\* this._elementProps and the props given to React: in _elementProps when it
\* is an event prop, or is not reserved, not on HTMLElement.prototype and on
\* the element's prototype; else given to React, className under the name
\* class. __forwardedRef is in neither, and _elementProps holds nothing the
\* props of this render do not.
C15_PropsRouted ==
  lastUpdate.kind # "none" =>
    /\ \A k \in DOMAIN props \ {ForwardedRef} :
         /\ (k \in DOMAIN _elementProps) # (ReactName(k) \in DOMAIN reactProps)
         /\ k \in DOMAIN _elementProps <=>
              \/ k \in DOMAIN events
              \/ /\ k \notin {"children", "localName", "ref", "style",
                               "className"}
                 /\ k \notin HTMLElementPrototype
                 /\ k \in ElementPrototype
         /\ k \in DOMAIN _elementProps => _elementProps[k] = props[k]
         /\ k \notin DOMAIN _elementProps => reactProps[ReactName(k)] = props[k]
    /\ ForwardedRef \notin DOMAIN _elementProps \cup DOMAIN reactProps
    /\ "className" \notin DOMAIN reactProps
    /\ "class" \in DOMAIN reactProps <=> "className" \in DOMAIN props
    /\ DOMAIN _elementProps \subseteq DOMAIN props
    /\ DOMAIN reactProps \subseteq {ReactName(k) : k \in DOMAIN props}

\* A render of an event prop, an element property, className, an HTMLElement
\* property and a name on no prototype.
C15_Witness ==
  /\ lastUpdate.kind = "render"
  /\ DOMAIN props =
       {ForwardedRef, "onClick", "value", "className", "title", "label"}
  /\ props[ForwardedRef] = "r1"
  /\ DOMAIN _elementProps = {"onClick", "value"}
  /\ DOMAIN reactProps = {"class", "title", "label"}

\* C16: a commit makes a new ref callback exactly when the forwarded user
\* ref differs from the one fulfilled last (or no callback exists yet), and
\* keeps the callback it has otherwise; a callback that is replaced or
\* unmounted gives null to the user ref it captured, the new one gives the
\* element to the user ref now forwarded, and no other user ref is written;
\* this._element, once an element, stays that element.
C16_Step ==
  /\ phase' = "mounted" =>
       LET userRef == UserRefOf(props')
       IN /\ lastUpdate'.fresh <=> (_ref = Undef \/ userRef # _userRef)
          /\ ~lastUpdate'.fresh => (_ref' = _ref /\ refHeld' = refHeld)
          /\ lastUpdate'.fresh =>
               /\ _ref' = userRef /\ _userRef' = userRef
               /\ \A r \in UserRefs :
                    refHeld'[r] = IF r = userRef THEN TheElement
                                  ELSE IF r = _ref THEN Null
                                  ELSE refHeld[r]
  /\ (phase = "mounted" /\ phase' = "unmounted") =>
       \A r \in UserRefs : refHeld'[r] = IF r = _ref THEN Null ELSE refHeld[r]
  /\ _element # Null => _element' = _element

C16_RefsForwarded == [][C16_Step]_vars

\* The forwarded ref went from r1 to r2 and the component was unmounted:
\* both user refs held the element and hold null now, this._element is still
\* the element.
C16_Witness ==
  /\ phase = "unmounted"
  /\ lastUpdate.kind = "update" /\ ~lastUpdate.fresh
  /\ _userRef = "r2"
  /\ refHeld = [r \in UserRefs |-> Null]
  /\ _element = TheElement

\* the Connectors created so far
Created == 1..(nextConnector - 1)

\* C17: every constructed element has a Connector of its own, one Connector
\* was created per constructed element, and the Connector was given the
\* selector and equality check of select(selector, equalityCheck), the very
\* options object of select(options), and no options for dispatch(); the
\* Connector a read used is the one of the element that was read.
C17_Connectors ==
  /\ Cardinality(Created) = Cardinality({h \in Hosts : controllerMap[h] # 0})
  /\ \A c \in Created : controllerMap[connectors[c].host] = c
  /\ \A h \in Hosts : controllerMap[h] # 0 =>
       LET given == connectors[controllerMap[h]].options
       IN /\ connectors[controllerMap[h]].host = h
          /\ (decoration.kind = "select" /\ ~decoration.isObject) =>
               /\ given.selector = decoration.arguments[1]
               /\ given.equalityCheck = decoration.arguments[2]
          /\ (decoration.kind = "select" /\ decoration.isObject) =>
               given = decoration.arguments[1]
          /\ decoration.kind = "dispatch" => given = NoOptions
  /\ lastRead # NoRead => connectors[lastRead.connector].host = lastRead.host

\* C17: a read of the field on an element returns the selected value, or the
\* dispatch, of the Connector created for that element.
C17_ReadStep ==
  lastRead' # lastRead =>
    LET own == CHOOSE c \in Created : connectors[c].host = lastRead'.host
    IN /\ decoration.kind = "select" =>
            lastRead'.selected = connectors[own].selected
       /\ decoration.kind = "dispatch" =>
            lastRead'.dispatch = connectors[own].dispatch

C17_FieldReadsOwnConnector == []C17_Connectors /\ [][C17_ReadStep]_vars

\* The field was read on the element constructed second, whose store is in
\* another state than the store of the element constructed first.
C17_Witness ==
  /\ decoration.kind = "select" /\ ~decoration.isObject
  /\ decoration.arguments = <<"whole", "sameParity">>
  /\ controllerMap = [h \in Hosts |-> IF h = "h1" THEN 2 ELSE 1]
  /\ lastRead.host = "h1" /\ lastRead.selected = 2
  /\ connectors[1].selected = 1

\* C8: whatever values the providers are given, a subscribed consumer's
\* property is the current value of its own enclosing provider, from the
\* provider's initial value on (in place of the consumer's own default); once
\* its update has run, so is what it rendered; it is never the value of
\* another provider.
C8_ConsumerFollowsOwnProvider ==
  \A c \in Consumers : connected[c] =>
    /\ subscribedTo[c] = ParentOf(c)
    /\ c \in subscribers[ParentOf(c)]
    /\ \A p \in Providers \ {ParentOf(c)} : c \notin subscribers[p]
    /\ consumerValue[c] = providerValue[ParentOf(c)]
    /\ ~updatePending[c] => rendered[c] = providerValue[ParentOf(c)]

\* Both consumers have updated after their providers changed, to values that
\* differ from each other, from the initial values and from the default.
C8_Witness ==
  /\ \A c \in Consumers : connected[c] /\ ~updatePending[c]
  /\ providerValue[1] = 3 /\ providerValue[2] = 0
  /\ rendered[1] = 3 /\ rendered[2] = 0

====
